---------------------------- MODULE Spec2Model ----------------------------
(***************************************************************************)
(* Model of the generation pipeline of src/code_generator.py:              *)
(* generate_react_three_app and the functions it calls.                    *)
(*                                                                         *)
(* Texts (LLM responses, file contents) are sequences of one-character     *)
(* strings, so that find / slice / strip / startswith / endswith behave as *)
(* they do on Python strings.                                              *)
(***************************************************************************)
EXTENDS Integers, Sequences, FiniteSets, TLC

(***************************************************************************)
(* Bounds of the model and constants of the program.                       *)
(***************************************************************************)
\* longest 'files' list of a plan the model enumerates
MaxFiles == 2

\* generate_file_with_retry(file_path, max_retries=3)
max_retries == 3
\* find_available_port(start_port, max_attempts=10)
DefaultPortAttempts == 10
\* wait_for_server(url, max_attempts=30, delay=1)
DefaultWaitAttempts == 30
\* min(10, len(files_to_generate))
PoolCap == 10
PORT_SEQUENTIAL == 5173
PORT_PARALLEL == 5174

IGNORED_FILES == {"index.html", "src/App.jsx", "src/index.jsx"}

RootPath == "src/App.jsx"
ConfigPath == "vite.config.js"

(***************************************************************************)
(* Python string primitives on sequences of characters.                    *)
(***************************************************************************)
\* normalisation of a slice bound: negative counts from the end, then clamp
PyIndex(i, n) ==
    IF i < 0 THEN (IF i + n < 0 THEN 0 ELSE i + n)
    ELSE IF i > n THEN n ELSE i

\* s[a:b] with 0-based bounds
Slice(s, a, b) ==
    LET lo == PyIndex(a, Len(s))
        hi == PyIndex(b, Len(s))
    IN IF lo >= hi THEN <<>> ELSE SubSeq(s, lo + 1, hi)

\* s.find(sub): 0-based index of the first occurrence, -1 when absent
Find(s, sub) ==
    LET hits == {i \in 0..(Len(s) - Len(sub)) :
                    SubSeq(s, i + 1, i + Len(sub)) = sub}
    IN IF hits = {} THEN -1
       ELSE CHOOSE i \in hits : \A j \in hits : i <= j

StartsWith(s, pre) == Len(s) >= Len(pre) /\ SubSeq(s, 1, Len(pre)) = pre

EndsWith(s, suf) ==
    Len(s) >= Len(suf) /\ SubSeq(s, Len(s) - Len(suf) + 1, Len(s)) = suf

IsSpace(c) == c \in {" ", "\n", "\t"}

\* s.strip()
Strip(s) ==
    LET keep == {i \in 1..Len(s) : ~IsSpace(s[i])}
    IN IF keep = {} THEN <<>>
       ELSE LET lo == CHOOSE i \in keep : \A j \in keep : i <= j
                hi == CHOOSE i \in keep : \A j \in keep : j <= i
            IN SubSeq(s, lo, hi)

\* Tick stands for the backquote character of the markdown fence
Tick == "^"
Fence == <<Tick, Tick, Tick>>

\* _clean_generated_code(content)
CleanGeneratedCode(content) ==
    LET c1 == Strip(content)
        nl == Find(c1, <<"\n">>)
        c2 == IF StartsWith(c1, Fence) /\ nl # -1
              THEN Slice(c1, nl + 1, Len(c1))
              ELSE c1
        c3 == IF EndsWith(c2, Fence) THEN Slice(c2, 0, -3) ELSE c2
    IN Strip(c3)

(***************************************************************************)
(* The structure-generation response and its extraction.                   *)
(***************************************************************************)
OpenTag == <<"<", "a", "n", "s", "w", "e", "r", ">">>
CloseTag == <<"<", "/", "a", "n", "s", "w", "e", "r", ">">>

\* "J" stands for the text of one JSON document; every other character is
\* text that is not JSON.
JsonText == <<"J">>

PlanPaths == {"src/App.jsx", "src/Cube.jsx", "src/components/Desk.jsx"}

RECURSIVE SeqsUpTo(_, _)
SeqsUpTo(S, n) ==
    IF n = 0 THEN {<<>>}
    ELSE LET shorter == SeqsUpTo(S, n - 1)
         IN shorter \cup {Append(s, x) : s \in {t \in shorter : Len(t) = n - 1},
                                         x \in S}

Range(s) == {s[i] : i \in DOMAIN s}

\* JSON documents the service may answer with.  kind "dict": an object with
\* the keys in its field keys; any other kind: a non-object value, truthy or not.
\* A plan describes every file it lists, or every one but Desk.jsx.
PlanDocs ==
    {[kind |-> "dict", keys |-> {"files", "descriptions"}, truthy |-> TRUE,
      files |-> f, descriptions |-> Range(f) \ u] :
        f \in SeqsUpTo(PlanPaths, MaxFiles),
        u \in SUBSET {"src/components/Desk.jsx"}}

OtherDocs ==
    { [kind |-> "dict", keys |-> {"deps", "descriptions"}, truthy |-> TRUE,
       files |-> <<>>, descriptions |-> {"src/Cube.jsx"}],
      [kind |-> "dict", keys |-> {"deps"}, truthy |-> TRUE,
       files |-> <<>>, descriptions |-> {}],
      [kind |-> "dict", keys |-> {}, truthy |-> FALSE,
       files |-> <<>>, descriptions |-> {}],
      [kind |-> "list", keys |-> {}, truthy |-> FALSE,
       files |-> <<>>, descriptions |-> {}],
      [kind |-> "list", keys |-> {}, truthy |-> TRUE,
       files |-> <<>>, descriptions |-> {}] }

Docs == PlanDocs \cup OtherDocs

NoneValue ==
    [kind |-> "None", keys |-> {}, truthy |-> FALSE,
     files |-> <<>>, descriptions |-> {}]

\* response texts: well formed, and the ways the delimiters can be missing
Responses ==
    { OpenTag \o <<"\n">> \o JsonText \o <<"\n">> \o CloseTag,
      OpenTag \o <<"x">> \o CloseTag,
      OpenTag \o JsonText,
      JsonText \o CloseTag,
      JsonText }

\* a response without delimiters whose characters 7 .. len-2 are the JSON text
BareResponse == <<"H", "e", "r", "e", ":", " ", " ">> \o JsonText \o <<".">>

\* the answers of the structure call: every response with every document,
\* and the bare response with the plan of the one file src/Cube.jsx
StructureAnswers ==
    (Responses \X Docs)
    \cup { <<BareResponse, doc>> :
             doc \in {d \in PlanDocs : d.files = <<"src/Cube.jsx">>
                                       /\ d.descriptions = {"src/Cube.jsx"}} }

\* json.loads(text): the document when the text is exactly one JSON
\* document, an exception (NoneValue after the except clause) otherwise
JsonLoads(text, doc) == IF text = JsonText THEN doc ELSE NoneValue

\* generate_project_structure, lines 104-111
ExtractStructure(response, doc) ==
    LET start == Find(response, OpenTag) + Len(OpenTag)
        end == Find(response, CloseTag)
        json_str == Strip(Slice(response, start, end))
    IN JsonLoads(json_str, doc)

\* project_structure.get(key, default)
DictGet(doc, key, default) ==
    IF key \in doc.keys
    THEN (IF key = "files" THEN doc.files ELSE doc.descriptions)
    ELSE default

(***************************************************************************)
(* The file system under the output directory: the existing files with     *)
(* their contents, and the existing directories.                           *)
(***************************************************************************)
\* os.path.dirname(file_path)
DirName(p) ==
    CASE p \in {"index.html", "vite.config.js"} -> ""
      [] p = "src/components/Desk.jsx" -> "src/components"
      [] OTHER -> "src"

NoFiles == [p \in {} |-> <<>>]

\* the template: the four files the structure prompt lists (lines 51-55)
StarterTree ==
    [files |-> [p \in {"index.html", "src/App.jsx", "src/index.jsx",
                       "src/styles.css"} |-> <<"t">>],
     dirs |-> {"", "src"}]

\* what a previous run may have left in the output directory
InitialTrees ==
    { [files |-> NoFiles, dirs |-> {}],
      [files |-> [p \in {"src/Cube.jsx"} |-> <<"o", "l", "d">>],
       dirs |-> {"", "src"}] }

\* copy_starter_to_output: rmtree of the old directory, copytree of the template
CopyStarter(tree) == StarterTree

\* os.makedirs(dir_path) creates the directory and its missing parents
MakeDirs(dir_path) ==
    CASE dir_path = "src/components" -> {"src", "src/components"}
      [] dir_path = "" -> {}
      [] OTHER -> {dir_path}

\* the loop body with the test of line 147 left out: every file is opened
ScaffoldOneTruncating(tree, file_path) ==
    LET dir_path == DirName(file_path)
        dirs1 == IF dir_path # "" /\ dir_path \notin tree.dirs
                 THEN tree.dirs \cup MakeDirs(dir_path)
                 ELSE tree.dirs
        files1 == [p \in DOMAIN tree.files \cup {file_path} |->
                       IF p = file_path THEN <<>> ELSE tree.files[p]]
    IN [files |-> files1, dirs |-> dirs1]

\* one iteration of the loop of setup_folder_structure
ScaffoldOne(tree, file_path) ==
    LET dir_path == DirName(file_path)
        dirs1 == IF dir_path # "" /\ dir_path \notin tree.dirs
                 THEN tree.dirs \cup MakeDirs(dir_path)
                 ELSE tree.dirs
        files1 == IF file_path \notin DOMAIN tree.files
                  THEN [p \in DOMAIN tree.files \cup {file_path} |->
                            IF p = file_path THEN <<>> ELSE tree.files[p]]
                  ELSE tree.files
    IN [files |-> files1, dirs |-> dirs1]

\* setup_folder_structure(job_files): the loop over the keys of the dict
RECURSIVE SetupFolderStructure(_, _)
SetupFolderStructure(tree, job_files) ==
    IF job_files = {} THEN tree
    ELSE LET file_path == CHOOSE p \in job_files : TRUE
         IN SetupFolderStructure(ScaffoldOne(tree, file_path),
                                 job_files \ {file_path})

\* open(file_path, 'w') succeeds when the containing directory exists
CanOpenForWrite(tree, file_path) ==
    DirName(file_path) = "" \/ DirName(file_path) \in tree.dirs

\* with open(file_path, 'w') as f: f.write(content)
WriteFile(tree, file_path, content) ==
    [files |-> [p \in DOMAIN tree.files \cup {file_path} |->
                    IF p = file_path THEN content ELSE tree.files[p]],
     dirs |-> tree.dirs]

(***************************************************************************)
(* The text-generation service as the pipeline sees it.                    *)
(***************************************************************************)
\* LLM.get_completion: raises, returns no text (content None), or a text
RawTexts ==
    { <<Tick, Tick, Tick, "j", "\n", "A", "\n", Tick, Tick, Tick>>,
      <<"B", "\n">> }

Outcomes ==
    { [kind |-> "raise", text |-> <<>>], [kind |-> "none", text |-> <<>>] }
    \cup { [kind |-> "text", text |-> t] : t \in RawTexts }

\* the results a test injects: success with a text, or failure
InjectableOutcomes == { o \in Outcomes : o.kind # "none" }

\* the answers to the one call of generate_app_code
RootOutcomes ==
    { o \in Outcomes : o.kind = "text" => o.text[1] = Tick }

\* the file opened for writing before the completion is asked for: a call
\* that raises has already truncated the file
GenerateCodeOpeningFirst(tree, file_path, outcome) ==
    IF ~CanOpenForWrite(tree, file_path)
    THEN [tree |-> tree, raised |-> TRUE, wrote |-> FALSE]
    ELSE IF outcome.kind # "text"
    THEN [tree |-> WriteFile(tree, file_path, <<>>), raised |-> TRUE,
          wrote |-> FALSE]
    ELSE [tree |-> WriteFile(tree, file_path, CleanGeneratedCode(outcome.text)),
          raised |-> FALSE, wrote |-> TRUE]

\* lines 215-219 and 262-266: the completion, the cleaner, the write.
\* The result is the tree after the call and whether the call raised.
GenerateCode(tree, file_path, outcome) ==
    IF outcome.kind # "text"
    THEN [tree |-> tree, raised |-> TRUE, wrote |-> FALSE]
    ELSE IF ~CanOpenForWrite(tree, file_path)
    THEN [tree |-> tree, raised |-> TRUE, wrote |-> FALSE]
    ELSE [tree |-> WriteFile(tree, file_path, CleanGeneratedCode(outcome.text)),
          raised |-> FALSE, wrote |-> TRUE]

(***************************************************************************)
(* Ports.                                                                  *)
(***************************************************************************)
\* the loop of find_available_port; -1 stands for the RuntimeError
RECURSIVE FindPortLoop(_, _, _)
FindPortLoop(port, remaining, in_use) ==
    IF remaining = 0 THEN -1
    ELSE IF port \notin in_use THEN port
    ELSE FindPortLoop(port + 1, remaining - 1, in_use)

FindAvailablePort(start_port, max_attempts, in_use) ==
    FindPortLoop(start_port, max_attempts, in_use)

\* sets of ports in use on the host when the run starts
PortEnvs ==
    { {}, {PORT_SEQUENTIAL},
      PORT_SEQUENTIAL..(PORT_PARALLEL + DefaultPortAttempts - 1) }

\* the text written to vite.config.js: it differs only in the port
ConfigText(port) == <<"p", "o", "r", "t", ":", ToString(port)>>

(***************************************************************************)
(* wait_for_server.                                                        *)
(***************************************************************************)
\* what one requests.get can give: a response, or one of the two exceptions
\* the loop catches
ProbeOutcomes ==
    { [kind |-> "response", status |-> 200],
      [kind |-> "response", status |-> 400],
      [kind |-> "response", status |-> 500],
      [kind |-> "ConnectionError", status |-> 0],
      [kind |-> "Timeout", status |-> 0] }

\* a slip in the comparison of line 286: status <= 400
WaitIterationOffByOne(outcome) ==
    IF outcome.kind = "response"
    THEN (IF outcome.status <= 400 THEN "return" ELSE "next")
    ELSE "sleep"

\* one iteration of the loop, lines 284-292: "return" (True), "next" (the
\* next iteration at once), or "sleep" (time.sleep(delay), then the next)
WaitIteration(outcome) ==
    IF outcome.kind = "response"
    THEN (IF outcome.status < 400 THEN "return" ELSE "next")
    ELSE "sleep"

\* a server that answers 'before' until its probe number ready_at
ServerBehaviours ==
    { [ready_at |-> r, before |-> o] :
        r \in {1, DefaultWaitAttempts, DefaultWaitAttempts + 1},
        o \in ProbeOutcomes \ {[kind |-> "response", status |-> 200]} }

ProbeOf(server, n) ==
    IF n >= server.ready_at
    THEN [kind |-> "response", status |-> 200]
    ELSE server.before

\* wait_for_server run to its end against a server: TRUE or FALSE
RECURSIVE WaitForServer(_, _, _)
WaitForServer(server, attempt, max_attempts) ==
    IF attempt >= max_attempts THEN FALSE
    ELSE IF WaitIteration(ProbeOf(server, attempt + 1)) = "return" THEN TRUE
    ELSE WaitForServer(server, attempt + 1, max_attempts)

(***************************************************************************)
(* State of one run of generate_react_three_app.                           *)
(***************************************************************************)
VARIABLES
    use_parallel,       \* the mode of the run
    pc,                 \* the step of generate_react_three_app to run next
    abort_at,           \* the step at which an exception left the function
    port,               \* the port chosen for the server
    port_fallback,      \* the RuntimeError branch of lines 351-353 was taken
    resp_delimited,     \* the structure response held both delimiters
    resp_expected,      \* its JSON was an object with the two keys
    files,              \* project_structure.get("files", [])
    descriptions,       \* the keys of project_structure.get("descriptions", {})
    tree,               \* the output directory: files and directories
    root_state,         \* "notrun", "calling", "written", "failed"
    leaf_phase_entered, \* step 5 was reached
    files_to_generate,  \* the filtered list of line 395
    max_workers,        \* size of the thread pool (0: none)
    st,                 \* per leaf task: new, queued, running, succeeded, failed
    attempts,           \* per leaf task: calls of generate_leaf_code begun
    fails,              \* per leaf task: calls that raised
    wrote,              \* per leaf task: the text its successful call wrote
    next_file,          \* position of the loop over files_to_generate
    collected,          \* per leaf task: times its result was handled
    log,                \* what was printed: [msg, task]
    io,                 \* kinds of file and process I/O the run performed
    gen_writes,         \* <<kind, path>> of each write by a generation task
    launches,           \* number of Popen calls
    ready,              \* result of wait_for_server: "unknown", "yes", "no"
    opened,             \* webbrowser.open was called
    paired,             \* a sequential run is followed by a parallel one
    inj,                \* the injected results of the pair of runs
    seq_tree,           \* the tree the sequential run of the pair ended with
    seq_pc,             \* the step the sequential run of the pair ended at
    w_pc,               \* wait_for_server alone: "idle", "loop", "done"
    w_max,              \* its max_attempts
    w_attempt,          \* its loop variable
    w_probes,           \* requests.get calls made
    w_sleeps,           \* time.sleep(delay) calls made
    w_ok_at,            \* number of the first probe with status < 400 (0: none)
    w_result,           \* "none", "True", "False"
    f_pc,               \* find_available_port alone: "idle", "loop", "done"
    f_start,            \* its start_port
    f_max,              \* its max_attempts
    f_in_use,           \* the ports on which a connect to localhost succeeds
    f_port,             \* its variable port
    f_probed,           \* the ports given to is_port_in_use, in call order
    f_result,           \* 0: none yet, -1: RuntimeError, else the port returned
    s_pc,               \* setup_folder_structure alone: "idle", "start",
                        \* "once", "twice"
    s_job,              \* the keys of its job_files
    s_before,           \* the tree before the first call
    s_once,             \* the tree after the first call
    s_twice,            \* the tree after the second call
    c_pc,               \* _clean_generated_code alone: "idle", "start", "done"
    c_text,             \* its argument
    c_once,             \* its result
    c_twice             \* the result of cleaning the result

planVars == <<port, port_fallback, resp_delimited, resp_expected, files,
              descriptions>>
taskVars == <<files_to_generate, max_workers, st, attempts, fails, wrote,
              next_file, collected>>
serverVars == <<launches, ready, opened>>
pairVars == <<paired, seq_tree, seq_pc>>
waitVars == <<w_pc, w_max, w_attempt, w_probes, w_sleeps, w_ok_at, w_result>>
portVars == <<f_pc, f_start, f_max, f_in_use, f_port, f_probed, f_result>>
scafVars == <<s_pc, s_job, s_before, s_once, s_twice>>
cleanVars == <<c_pc, c_text, c_once, c_twice>>
toolVars == <<portVars, scafVars, cleanVars>>
runVars == <<use_parallel, pc, abort_at, planVars, tree, root_state,
             leaf_phase_entered, taskVars, log, io, gen_writes, serverVars>>
vars == <<runVars, pairVars, inj, waitVars, toolVars>>

Terminal == {"done", "returned", "raised"}

NoTasks == [i \in {} |-> 0]
NoInjection == [k \in {} |-> 0]

\* In a pair of runs the second run is given the results the first was
\* given: the ports in use, the structure response, and the result of each
\* generation call, fixed per key (kind, path, attempt) once drawn.  What
\* the processes do (npm install, npm run dev, the server) is not injected.
InjectedKinds == {"ports", "structure", "root", "leaf"}

Injected(key, S) ==
    IF paired /\ key[1] \in InjectedKinds /\ key \in DOMAIN inj
    THEN {inj[key]}
    ELSE S

Recorded(key, v) ==
    IF paired /\ key[1] \in InjectedKinds /\ key \notin DOMAIN inj
    THEN inj @@ (key :> v)
    ELSE inj

WaitIdle ==
    /\ w_pc = "idle" /\ w_max = 0 /\ w_attempt = 0 /\ w_probes = 0
    /\ w_sleeps = 0 /\ w_ok_at = 0 /\ w_result = "none"

NoTree == [files |-> NoFiles, dirs |-> {}]

PortIdle ==
    /\ f_pc = "idle" /\ f_start = 0 /\ f_max = 0 /\ f_in_use = {}
    /\ f_port = 0 /\ f_probed = <<>> /\ f_result = 0

ScafIdle ==
    /\ s_pc = "idle" /\ s_job = {} /\ s_before = NoTree /\ s_once = NoTree
    /\ s_twice = NoTree

CleanIdle ==
    /\ c_pc = "idle" /\ c_text = <<>> /\ c_once = <<>> /\ c_twice = <<>>

ToolIdle == PortIdle /\ ScafIdle /\ CleanIdle

\* the variables of a run other than pc and tree, before its first step
RunFields ==
    /\ abort_at = "none"
    /\ port = 0
    /\ port_fallback = FALSE
    /\ resp_delimited = TRUE
    /\ resp_expected = TRUE
    /\ files = <<>>
    /\ descriptions = {}
    /\ root_state = "notrun"
    /\ leaf_phase_entered = FALSE
    /\ files_to_generate = <<>>
    /\ max_workers = 0
    /\ st = NoTasks
    /\ attempts = NoTasks
    /\ fails = NoTasks
    /\ wrote = NoTasks
    /\ next_file = 1
    /\ collected = NoTasks
    /\ log = {}
    /\ io = {}
    /\ gen_writes = {}
    /\ launches = 0
    /\ ready = "unknown"
    /\ opened = FALSE

\* the state on entry of generate_react_three_app
InitRun ==
    /\ pc = "find_port"
    /\ tree \in InitialTrees
    /\ RunFields

\* __main__: one run, sequential or (-p) parallel
Init ==
    /\ use_parallel \in BOOLEAN
    /\ InitRun
    /\ paired = FALSE
    /\ inj = NoInjection
    /\ seq_tree = NoTree
    /\ seq_pc = "none"
    /\ WaitIdle
    /\ ToolIdle

Raise(step) == pc' = "raised" /\ abort_at' = step

(***************************************************************************)
(* Lines 343-353: the mode's directory and port.                           *)
(***************************************************************************)
BasePort == IF use_parallel THEN PORT_PARALLEL ELSE PORT_SEQUENTIAL

\* lines 351-353 without the except clause: the RuntimeError leaves the run
FindPortFatal ==
    /\ pc = "find_port"
    /\ \E in_use \in Injected(<<"ports", "", 0>>, PortEnvs) :
         LET found == FindAvailablePort(BasePort, DefaultPortAttempts, in_use)
         IN /\ port' = IF found = -1 THEN port ELSE found
            /\ port_fallback' = (found = -1)
            /\ IF found = -1 THEN Raise("find_port")
                             ELSE pc' = "structure" /\ UNCHANGED abort_at
            /\ inj' = Recorded(<<"ports", "", 0>>, in_use)
    /\ UNCHANGED <<use_parallel, resp_delimited, resp_expected, log,
                   files, descriptions, tree, root_state, leaf_phase_entered,
                   taskVars, io, gen_writes, serverVars, pairVars, waitVars,
                   toolVars>>

FindPort ==
    /\ pc = "find_port"
    /\ \E in_use \in Injected(<<"ports", "", 0>>, PortEnvs) :
         LET found == FindAvailablePort(BasePort, DefaultPortAttempts, in_use)
         IN /\ port' = IF found = -1 THEN BasePort ELSE found
            /\ port_fallback' = (found = -1)
            /\ log' = IF found = -1
                      THEN log \cup {[msg |-> "port_warning", task |-> 0]}
                      ELSE log
            /\ inj' = Recorded(<<"ports", "", 0>>, in_use)
    /\ pc' = "structure"
    /\ UNCHANGED <<use_parallel, abort_at, resp_delimited, resp_expected,
                   files, descriptions, tree, root_state, leaf_phase_entered,
                   taskVars, io, gen_writes, serverVars, pairVars, waitVars, toolVars>>

(***************************************************************************)
(* Step 1, lines 355-363.                                                  *)
(***************************************************************************)
HasDelimiters(response) ==
    Find(response, OpenTag) # -1 /\ Find(response, CloseTag) # -1

IsExpectedObject(doc) ==
    doc.kind = "dict" /\ {"files", "descriptions"} \subseteq doc.keys

GenerateStructure ==
    /\ pc = "structure"
    /\ \E in \in Injected(<<"structure", "", 0>>, StructureAnswers) :
         LET project_structure == ExtractStructure(in[1], in[2])
         IN /\ inj' = Recorded(<<"structure", "", 0>>, in)
            /\ resp_delimited' = HasDelimiters(in[1])
            /\ resp_expected' = IsExpectedObject(project_structure)
            /\ IF ~project_structure.truthy
               THEN \* "Failed to generate project structure. Exiting."
                    /\ pc' = "returned"
                    /\ log' = log \cup {[msg |-> "structure_failed", task |-> 0]}
                    /\ UNCHANGED <<abort_at, files, descriptions>>
               ELSE IF project_structure.kind # "dict"
               THEN \* .get on a value that is no dict: AttributeError
                    /\ Raise("structure")
                    /\ UNCHANGED <<log, files, descriptions>>
               ELSE /\ files' = DictGet(project_structure, "files", <<>>)
                    /\ descriptions' =
                         DictGet(project_structure, "descriptions", {})
                    /\ pc' = "copy"
                    /\ UNCHANGED <<log, abort_at>>
    /\ UNCHANGED <<use_parallel, port, port_fallback, tree, root_state,
                   leaf_phase_entered, taskVars, io, gen_writes, serverVars,
                   pairVars, waitVars, toolVars>>

(***************************************************************************)
(* Steps 2 and 3, lines 373-380.                                           *)
(***************************************************************************)
\* npm install (check=True) may fail after the copy: CalledProcessError
CopyStarterToOutput ==
    /\ pc = "copy"
    /\ tree' = CopyStarter(tree)
    /\ io' = io \cup {"copy"}
    /\ \E ok \in Injected(<<"npm_install", "", 0>>, BOOLEAN) :
         /\ inj' = Recorded(<<"npm_install", "", 0>>, ok)
         /\ IF ok THEN pc' = "scaffold" /\ UNCHANGED abort_at
                  ELSE Raise("copy")
    /\ UNCHANGED <<use_parallel, planVars, root_state, leaf_phase_entered,
                   taskVars, log, gen_writes, serverVars, pairVars, waitVars, toolVars>>

Scaffold ==
    /\ pc = "scaffold"
    /\ tree' = SetupFolderStructure(tree, descriptions)
    /\ io' = io \cup {"scaffold"}
    /\ pc' = "root"
    /\ UNCHANGED <<use_parallel, abort_at, planVars, root_state,
                   leaf_phase_entered, taskVars, log, gen_writes, serverVars,
                   pairVars, inj, waitVars, toolVars>>

(***************************************************************************)
(* Step 4, lines 382-389: generate_app_code for src/App.jsx.               *)
(***************************************************************************)
\* the root call handed to a background thread: step 5 starts at once
RootBeginNotAwaited ==
    /\ pc = "root"
    /\ root_state' = "calling"
    /\ pc' = "filter"
    /\ UNCHANGED <<use_parallel, abort_at, planVars, tree,
                   leaf_phase_entered, taskVars, log, io, gen_writes,
                   serverVars, pairVars, inj, waitVars, toolVars>>

RootBegin ==
    /\ pc = "root"
    /\ root_state' = "calling"
    /\ pc' = "root_call"
    /\ UNCHANGED <<use_parallel, abort_at, planVars, tree,
                   leaf_phase_entered, taskVars, log, io, gen_writes,
                   serverVars, pairVars, inj, waitVars, toolVars>>

\* the call is not inside any try: an exception leaves the function
RootEnd ==
    /\ pc = "root_call"
    /\ \E o \in Injected(<<"root", RootPath, 1>>,
                         IF paired THEN RootOutcomes \cap InjectableOutcomes
                                   ELSE RootOutcomes) :
         LET g == GenerateCode(tree, RootPath, o)
         IN /\ inj' = Recorded(<<"root", RootPath, 1>>, o)
            /\ tree' = g.tree
            /\ IF g.raised
               THEN /\ root_state' = "failed"
                    /\ Raise("root")
                    /\ UNCHANGED <<io, gen_writes>>
               ELSE /\ root_state' = "written"
                    /\ pc' = "filter"
                    /\ io' = io \cup {"gen_write"}
                    /\ gen_writes' = gen_writes \cup {<<"root", RootPath>>}
                    /\ UNCHANGED abort_at
    /\ UNCHANGED <<use_parallel, planVars, leaf_phase_entered, taskVars, log,
                   serverVars, pairVars, waitVars, toolVars>>

(***************************************************************************)
(* Step 5, lines 391-444: the leaf tasks.                                  *)
(***************************************************************************)
\* the filter of line 395 left out
FilesToGenerateUnfiltered(fs) == fs

\* line 395
FilesToGenerate(fs) == SelectSeq(fs, LAMBDA file_path : file_path \notin IGNORED_FILES)

Min(a, b) == IF a <= b THEN a ELSE b

\* line 424 without the cap: max_workers=len(files_to_generate)
PoolSizeUncapped(n) == n

\* line 424: max_workers=min(10, len(files_to_generate))
PoolSize(n) == Min(PoolCap, n)

\* Line 395, and in parallel mode the construction of the pool:
\* ThreadPoolExecutor raises ValueError when max_workers <= 0.
BeginLeafPhase ==
    /\ pc = "filter"
    /\ LET ftg == FilesToGenerate(files)
           n == Len(ftg)
       IN /\ files_to_generate' = ftg
          /\ st' = [i \in 1..n |-> "new"]
          /\ attempts' = [i \in 1..n |-> 0]
          /\ fails' = [i \in 1..n |-> 0]
          /\ wrote' = [i \in 1..n |-> <<>>]
          /\ collected' = [i \in 1..n |-> 0]
          /\ next_file' = 1
          /\ IF use_parallel
             THEN IF PoolSize(n) <= 0
                  THEN Raise("pool") /\ max_workers' = 0
                  ELSE /\ max_workers' = PoolSize(n)
                       /\ pc' = "leaves"
                       /\ UNCHANGED abort_at
             ELSE /\ max_workers' = 0
                  /\ pc' = "leaves"
                  /\ UNCHANGED abort_at
    /\ leaf_phase_entered' = TRUE
    /\ UNCHANGED <<use_parallel, planVars, tree, root_state, log, io,
                   gen_writes, serverVars, pairVars, inj, waitVars, toolVars>>

Finished(i) == st[i] \in {"succeeded", "failed"}

\* one pass too many: attempt <= max_retries - 1 read as attempt <= max_retries
AfterFailureOneMore(a) == IF a <= max_retries THEN "retry" ELSE "fail"

\* lines 413-420: after the exception of attempt number a (1-based)
AfterFailure(a) == IF a < max_retries THEN "retry" ELSE "fail"

\* One pass of the loop of generate_file_with_retry, lines 403-420: the call
\* of generate_leaf_code, and on an exception the sleep of 2 seconds before
\* the next pass or the return of False.
Attempt(i) ==
    /\ pc = "leaves"
    /\ st[i] = "running"
    /\ LET a == attempts[i] + 1
           file_path == files_to_generate[i]
       IN \E o \in Injected(<<"leaf", file_path, a>>,
                            IF paired THEN InjectableOutcomes ELSE Outcomes) :
            LET g == GenerateCode(tree, file_path, o)
            IN /\ inj' = Recorded(<<"leaf", file_path, a>>, o)
               /\ attempts' = [attempts EXCEPT ![i] = a]
               /\ tree' = g.tree
               /\ IF ~g.raised
                  THEN /\ st' = [st EXCEPT ![i] = "succeeded"]
                       /\ wrote' = [wrote EXCEPT ![i] = g.tree.files[file_path]]
                       /\ log' = log \cup {[msg |-> "completed", task |-> i]}
                       /\ io' = io \cup {"gen_write"}
                       /\ gen_writes' = gen_writes \cup {<<"leaf", file_path>>}
                       /\ UNCHANGED fails
                  ELSE /\ fails' = [fails EXCEPT ![i] = @ + 1]
                       /\ IF AfterFailure(a) = "retry"
                          THEN UNCHANGED <<st, log>>
                          ELSE /\ st' = [st EXCEPT ![i] = "failed"]
                               /\ log' = log \cup
                                    {[msg |-> "failed_after_retries", task |-> i]}
                       /\ UNCHANGED <<wrote, io, gen_writes>>
    /\ UNCHANGED <<use_parallel, pc, abort_at, planVars, root_state,
                   leaf_phase_entered, files_to_generate, max_workers,
                   next_file, collected, serverVars, pairVars, waitVars, toolVars>>

\* lines 433-434 and 441-442
Warned(i) ==
    IF st[i] = "failed"
    THEN log \cup {[msg |-> "warning", task |-> i]}
    ELSE log

\* sequential mode, line 440: the call of generate_file_with_retry
SeqStart ==
    /\ pc = "leaves"
    /\ ~use_parallel
    /\ next_file <= Len(files_to_generate)
    /\ st[next_file] = "new"
    /\ st' = [st EXCEPT ![next_file] = "running"]
    /\ UNCHANGED <<use_parallel, pc, abort_at, planVars, tree, root_state,
                   leaf_phase_entered, files_to_generate, max_workers,
                   attempts, fails, wrote, next_file, collected, log, io,
                   gen_writes, serverVars, pairVars, inj, waitVars, toolVars>>

\* the loop of line 439 left at the first failed file (break)
SeqReturnBreak ==
    /\ pc = "leaves"
    /\ ~use_parallel
    /\ next_file <= Len(files_to_generate)
    /\ st[next_file] \in {"succeeded", "failed"}
    /\ log' = IF st[next_file] = "failed"
              THEN log \cup {[msg |-> "warning", task |-> next_file]}
              ELSE log
    /\ collected' = [collected EXCEPT ![next_file] = @ + 1]
    /\ next_file' = IF st[next_file] = "failed"
                    THEN Len(files_to_generate) + 1
                    ELSE next_file + 1
    /\ UNCHANGED <<use_parallel, pc, abort_at, planVars, tree, root_state,
                   leaf_phase_entered, files_to_generate, max_workers, st,
                   attempts, fails, wrote, io, gen_writes, serverVars,
                   pairVars, inj, waitVars, toolVars>>

\* generate_file_with_retry re-raising after the last attempt
SeqReturnRaise ==
    /\ pc = "leaves"
    /\ ~use_parallel
    /\ next_file <= Len(files_to_generate)
    /\ st[next_file] \in {"succeeded", "failed"}
    /\ collected' = [collected EXCEPT ![next_file] = @ + 1]
    /\ next_file' = next_file + 1
    /\ IF st[next_file] = "failed"
       THEN pc' = "raised" /\ abort_at' = "leaves"
       ELSE UNCHANGED <<pc, abort_at>>
    /\ UNCHANGED <<use_parallel, planVars, tree, root_state,
                   leaf_phase_entered, files_to_generate, max_workers, st,
                   attempts, fails, wrote, log, io, gen_writes, serverVars,
                   pairVars, inj, waitVars, toolVars>>

\* sequential mode, lines 440-442: the call returned; the loop goes on
SeqReturn ==
    /\ pc = "leaves"
    /\ ~use_parallel
    /\ next_file <= Len(files_to_generate)
    /\ Finished(next_file)
    /\ log' = Warned(next_file)
    /\ collected' = [collected EXCEPT ![next_file] = @ + 1]
    /\ next_file' = next_file + 1
    /\ UNCHANGED <<use_parallel, pc, abort_at, planVars, tree, root_state,
                   leaf_phase_entered, files_to_generate, max_workers, st,
                   attempts, fails, wrote, io, gen_writes, serverVars,
                   pairVars, inj, waitVars, toolVars>>

\* sequential mode: the loop of line 439 is exhausted
SeqExit ==
    /\ pc = "leaves"
    /\ ~use_parallel
    /\ next_file > Len(files_to_generate)
    /\ pc' = "config"
    /\ UNCHANGED <<use_parallel, abort_at, planVars, tree, root_state,
                   leaf_phase_entered, taskVars, log, io, gen_writes,
                   serverVars, pairVars, inj, waitVars, toolVars>>

\* parallel mode, line 426: executor.submit for the next file of the list
Submit ==
    /\ pc = "leaves"
    /\ use_parallel
    /\ next_file <= Len(files_to_generate)
    /\ st' = [st EXCEPT ![next_file] = "queued"]
    /\ next_file' = next_file + 1
    /\ UNCHANGED <<use_parallel, pc, abort_at, planVars, tree, root_state,
                   leaf_phase_entered, files_to_generate, max_workers,
                   attempts, fails, wrote, collected, log, io, gen_writes,
                   serverVars, pairVars, inj, waitVars, toolVars>>

Running == {i \in DOMAIN st : st[i] = "running"}

\* a worker thread of the pool takes the oldest queued task
WorkerStart(i) ==
    /\ pc = "leaves"
    /\ use_parallel
    /\ st[i] = "queued"
    /\ \A j \in DOMAIN st : st[j] = "queued" => i <= j
    /\ Cardinality(Running) < max_workers
    /\ st' = [st EXCEPT ![i] = "running"]
    /\ UNCHANGED <<use_parallel, pc, abort_at, planVars, tree, root_state,
                   leaf_phase_entered, files_to_generate, max_workers,
                   attempts, fails, wrote, next_file, collected, log, io,
                   gen_writes, serverVars, pairVars, inj, waitVars, toolVars>>

\* parallel mode, lines 429-436: as_completed yields a finished future
Collect(i) ==
    /\ pc = "leaves"
    /\ use_parallel
    /\ next_file > Len(files_to_generate)
    /\ Finished(i)
    /\ collected[i] = 0
    /\ log' = Warned(i)
    /\ collected' = [collected EXCEPT ![i] = @ + 1]
    /\ UNCHANGED <<use_parallel, pc, abort_at, planVars, tree, root_state,
                   leaf_phase_entered, files_to_generate, max_workers, st,
                   attempts, fails, wrote, next_file, io, gen_writes,
                   serverVars, pairVars, inj, waitVars, toolVars>>

\* the pool shut down without waiting (shutdown(wait=False)) and no
\* as_completed loop: the main thread goes on once every task is submitted
PoolExitNotWaiting ==
    /\ pc = "leaves"
    /\ use_parallel
    /\ next_file > Len(files_to_generate)
    /\ pc' = "config"
    /\ UNCHANGED <<use_parallel, abort_at, planVars, tree, root_state,
                   leaf_phase_entered, taskVars, log, io, gen_writes,
                   serverVars, pairVars, inj, waitVars, toolVars>>

\* parallel mode: as_completed is exhausted and the with block is left
PoolExit ==
    /\ pc = "leaves"
    /\ use_parallel
    /\ next_file > Len(files_to_generate)
    /\ \A i \in DOMAIN st : Finished(i) /\ collected[i] > 0
    /\ pc' = "config"
    /\ UNCHANGED <<use_parallel, abort_at, planVars, tree, root_state,
                   leaf_phase_entered, taskVars, log, io, gen_writes,
                   serverVars, pairVars, inj, waitVars, toolVars>>

(***************************************************************************)
(* Step 6, lines 446-473: the configuration file and the server.           *)
(***************************************************************************)
WriteConfig ==
    /\ pc = "config"
    /\ tree' = WriteFile(tree, ConfigPath, ConfigText(port))
    /\ io' = io \cup {"config"}
    /\ pc' = "launch"
    /\ UNCHANGED <<use_parallel, abort_at, planVars, root_state,
                   leaf_phase_entered, taskVars, log, gen_writes, serverVars,
                   pairVars, inj, waitVars, toolVars>>

\* the Popen call inside a try whose except clause only prints
LaunchFailureSwallowed ==
    /\ pc = "launch"
    /\ launches' = launches + 1
    /\ io' = io \cup {"launch"}
    /\ \E ok \in Injected(<<"popen", "", 0>>, BOOLEAN) :
         /\ inj' = Recorded(<<"popen", "", 0>>, ok)
         /\ pc' = "wait"
         /\ abort_at' = IF ok THEN abort_at ELSE "launch"
    /\ UNCHANGED <<use_parallel, planVars, tree, root_state,
                   leaf_phase_entered, taskVars, log, gen_writes, ready,
                   opened, pairVars, waitVars, toolVars>>

\* subprocess.Popen(["npm", "run", "dev"]) starts the process or raises
Launch ==
    /\ pc = "launch"
    /\ launches' = launches + 1
    /\ io' = io \cup {"launch"}
    /\ \E ok \in Injected(<<"popen", "", 0>>, BOOLEAN) :
         /\ inj' = Recorded(<<"popen", "", 0>>, ok)
         /\ IF ok THEN pc' = "wait" /\ UNCHANGED abort_at
                  ELSE Raise("launch")
    /\ UNCHANGED <<use_parallel, planVars, tree, root_state,
                   leaf_phase_entered, taskVars, log, gen_writes, ready,
                   opened, pairVars, waitVars, toolVars>>

\* lines 471-473 with vite_process.kill() added to the else branch
WaitAndOpenKillingOnTimeout ==
    /\ pc = "wait"
    /\ \E server \in Injected(<<"server", "", 0>>, ServerBehaviours) :
         LET r == WaitForServer(server, 0, DefaultWaitAttempts)
         IN /\ inj' = Recorded(<<"server", "", 0>>, server)
            /\ ready' = IF r THEN "yes" ELSE "no"
            /\ opened' = r
            /\ io' = IF r THEN io ELSE io \cup {"kill"}
            /\ log' = IF r THEN log
                      ELSE log \cup {[msg |-> "manual_url", task |-> 0]}
    /\ pc' = "done"
    /\ UNCHANGED <<use_parallel, abort_at, planVars, tree, root_state,
                   leaf_phase_entered, taskVars, gen_writes, launches,
                   pairVars, waitVars, toolVars>>

\* lines 468-473: wait_for_server(server_url), then the browser or the hint
WaitAndOpen ==
    /\ pc = "wait"
    /\ \E server \in Injected(<<"server", "", 0>>, ServerBehaviours) :
         LET r == WaitForServer(server, 0, DefaultWaitAttempts)
         IN /\ inj' = Recorded(<<"server", "", 0>>, server)
            /\ ready' = IF r THEN "yes" ELSE "no"
            /\ opened' = r
            /\ log' = IF r THEN log
                      ELSE log \cup {[msg |-> "manual_url", task |-> 0]}
    /\ pc' = "done"
    /\ UNCHANGED <<use_parallel, abort_at, planVars, tree, root_state,
                   leaf_phase_entered, taskVars, io, gen_writes, launches,
                   pairVars, waitVars, toolVars>>

Next ==
    \/ FindPort
    \/ GenerateStructure
    \/ CopyStarterToOutput
    \/ Scaffold
    \/ RootBegin
    \/ RootEnd
    \/ BeginLeafPhase
    \/ SeqStart
    \/ SeqReturn
    \/ SeqExit
    \/ Submit
    \/ \E i \in DOMAIN st : WorkerStart(i)
    \/ \E i \in DOMAIN st : Attempt(i)
    \/ \E i \in DOMAIN st : Collect(i)
    \/ PoolExit
    \/ WriteConfig
    \/ Launch
    \/ WaitAndOpen

Spec == Init /\ [][Next]_vars

(***************************************************************************)
(* A pair of runs, __main__ without and then with -p, against the same     *)
(* injected results.  Each mode has its own output directory.              *)
(***************************************************************************)
InitModes ==
    /\ use_parallel = FALSE
    /\ InitRun
    /\ paired = TRUE
    /\ inj = NoInjection
    /\ seq_tree = NoTree
    /\ seq_pc = "none"
    /\ WaitIdle
    /\ ToolIdle

\* the sequential run has completed; the parallel run starts
SecondRun ==
    /\ paired
    /\ ~use_parallel
    /\ pc = "done"
    /\ seq_tree' = tree
    /\ seq_pc' = pc
    /\ use_parallel' = TRUE
    /\ pc' = "find_port"
    /\ tree' \in InitialTrees
    /\ abort_at' = "none"
    /\ port' = 0
    /\ port_fallback' = FALSE
    /\ resp_delimited' = TRUE
    /\ resp_expected' = TRUE
    /\ files' = <<>>
    /\ descriptions' = {}
    /\ root_state' = "notrun"
    /\ leaf_phase_entered' = FALSE
    /\ files_to_generate' = <<>>
    /\ max_workers' = 0
    /\ st' = NoTasks
    /\ attempts' = NoTasks
    /\ fails' = NoTasks
    /\ wrote' = NoTasks
    /\ next_file' = 1
    /\ collected' = NoTasks
    /\ log' = {}
    /\ io' = {}
    /\ gen_writes' = {}
    /\ launches' = 0
    /\ ready' = "unknown"
    /\ opened' = FALSE
    /\ UNCHANGED <<paired, inj, waitVars, toolVars>>

NextModes == Next \/ SecondRun

SpecModes == InitModes /\ [][NextModes]_vars

(***************************************************************************)
(* wait_for_server on its own, one loop iteration per step, against any    *)
(* sequence of probe outcomes.                                             *)
(***************************************************************************)
InitWait ==
    /\ use_parallel = FALSE
    /\ pc = "idle"
    /\ tree = NoTree
    /\ RunFields
    /\ paired = FALSE
    /\ inj = NoInjection
    /\ seq_tree = NoTree
    /\ seq_pc = "none"
    /\ w_pc = "loop"
    /\ w_max \in 0..DefaultWaitAttempts
    /\ w_attempt = 0
    /\ w_probes = 0
    /\ w_sleeps = 0
    /\ w_ok_at = 0
    /\ w_result = "none"
    /\ ToolIdle

\* lines 283-292: one pass of the loop
WaitProbe ==
    /\ w_pc = "loop"
    /\ w_attempt < w_max
    /\ \E o \in ProbeOutcomes :
         /\ w_probes' = w_probes + 1
         /\ w_ok_at' = IF w_ok_at = 0 /\ o.kind = "response" /\ o.status < 400
                       THEN w_probes + 1
                       ELSE w_ok_at
         /\ LET effect == WaitIteration(o)
            IN IF effect = "return"
               THEN /\ w_result' = "True"
                    /\ w_pc' = "done"
                    /\ UNCHANGED <<w_attempt, w_sleeps>>
               ELSE /\ w_attempt' = w_attempt + 1
                    /\ w_sleeps' = IF effect = "sleep"
                                   THEN w_sleeps + 1
                                   ELSE w_sleeps
                    /\ UNCHANGED <<w_result, w_pc>>
    /\ UNCHANGED <<w_max, runVars, pairVars, inj, toolVars>>

\* lines 294-295: the loop is exhausted
WaitGiveUp ==
    /\ w_pc = "loop"
    /\ w_attempt >= w_max
    /\ w_result' = "False"
    /\ w_pc' = "done"
    /\ UNCHANGED <<w_max, w_attempt, w_probes, w_sleeps, w_ok_at, runVars,
                   pairVars, inj, toolVars>>

NextWait == WaitProbe \/ WaitGiveUp

SpecWait == InitWait /\ [][NextWait]_vars

(***************************************************************************)
(* find_available_port on its own, one loop iteration per step.            *)
(***************************************************************************)
\* no run of generate_react_three_app is in progress
RunIdle ==
    /\ use_parallel = FALSE
    /\ pc = "idle"
    /\ tree = NoTree
    /\ RunFields
    /\ paired = FALSE
    /\ inj = NoInjection
    /\ seq_tree = NoTree
    /\ seq_pc = "none"

\* most ports a port environment of the stand-alone call spreads over
PortSpan == 5

\* is_port_in_use(port): the connect to localhost:port succeeded
IsPortInUse(p, in_use) == p \in in_use

\* line 325 read as port += 2
NextPortSkipping(p) == p + 2

\* line 325: port += 1
NextPort(p) == p + 1

\* the ports in use: any set among the first PortSpan ports, and every port
\* of the default range of either mode
PortSets ==
    (SUBSET (PORT_SEQUENTIAL..(PORT_SEQUENTIAL + PortSpan - 1)))
    \cup { PORT_SEQUENTIAL..(PORT_PARALLEL + DefaultPortAttempts - 1),
           PORT_PARALLEL..(PORT_PARALLEL + DefaultPortAttempts - 1) }

InitPort ==
    /\ RunIdle
    /\ WaitIdle
    /\ ScafIdle
    /\ CleanIdle
    /\ f_pc = "loop"
    /\ f_start \in {PORT_SEQUENTIAL, PORT_PARALLEL}
    /\ f_max \in {0, 1, PortSpan - 1, DefaultPortAttempts}
    /\ f_in_use \in PortSets
    /\ f_port = f_start
    /\ f_probed = <<>>
    /\ f_result = 0

\* lines 322-325: one pass of the loop
PortProbe ==
    /\ f_pc = "loop"
    /\ Len(f_probed) < f_max
    /\ f_probed' = Append(f_probed, f_port)
    /\ IF ~IsPortInUse(f_port, f_in_use)
       THEN /\ f_result' = f_port
            /\ f_pc' = "done"
            /\ UNCHANGED f_port
       ELSE /\ f_port' = NextPort(f_port)
            /\ UNCHANGED <<f_result, f_pc>>
    /\ UNCHANGED <<f_start, f_max, f_in_use, runVars, pairVars, inj, waitVars,
                   scafVars, cleanVars>>

\* line 326: the loop is exhausted, RuntimeError
PortGiveUp ==
    /\ f_pc = "loop"
    /\ Len(f_probed) >= f_max
    /\ f_result' = -1
    /\ f_pc' = "done"
    /\ UNCHANGED <<f_start, f_max, f_in_use, f_port, f_probed, runVars,
                   pairVars, inj, waitVars, scafVars, cleanVars>>

NextPortCall == PortProbe \/ PortGiveUp

SpecPort == InitPort /\ [][NextPortCall]_vars

(***************************************************************************)
(* setup_folder_structure on its own: called on a tree, and called again   *)
(* on the tree it left.                                                    *)
(***************************************************************************)
ScaffoldPaths == PlanPaths \cup {"index.html"}

\* the working directory before the call: any set of existing files, each
\* with content, in their directories, and possibly further empty directories
ScaffoldTrees ==
    { [files |-> [p \in F |-> <<"o", "l", "d">>],
       dirs |-> {""} \cup UNION {MakeDirs(DirName(p)) : p \in F}
                     \cup UNION {MakeDirs(d) : d \in D}] :
        F \in SUBSET ScaffoldPaths, D \in SUBSET {"src", "src/components"} }

InitScaffold ==
    /\ RunIdle
    /\ WaitIdle
    /\ PortIdle
    /\ CleanIdle
    /\ s_pc = "start"
    /\ s_job \in SUBSET ScaffoldPaths
    /\ s_before \in ScaffoldTrees
    /\ s_once = NoTree
    /\ s_twice = NoTree

\* setup_folder_structure(job_files)
ScaffoldFirst ==
    /\ s_pc = "start"
    /\ s_once' = SetupFolderStructure(s_before, s_job)
    /\ s_pc' = "once"
    /\ UNCHANGED <<s_job, s_before, s_twice, runVars, pairVars, inj, waitVars,
                   portVars, cleanVars>>

\* setup_folder_structure(job_files) again, on the tree the first call left
ScaffoldSecond ==
    /\ s_pc = "once"
    /\ s_twice' = SetupFolderStructure(s_once, s_job)
    /\ s_pc' = "twice"
    /\ UNCHANGED <<s_job, s_before, s_once, runVars, pairVars, inj, waitVars,
                   portVars, cleanVars>>

NextScaffold == ScaffoldFirst \/ ScaffoldSecond

SpecScaffold == InitScaffold /\ [][NextScaffold]_vars

(***************************************************************************)
(* _clean_generated_code on its own: applied to a text, and applied again  *)
(* to its result.                                                          *)
(***************************************************************************)
\* longest text given to the cleaner
MaxTextLen == 8

\* the characters of the texts: the backquote, the line break, a space and
\* a character of code
CleanAlphabet == {Tick, "\n", " ", "a"}

InitClean ==
    /\ RunIdle
    /\ WaitIdle
    /\ PortIdle
    /\ ScafIdle
    /\ c_pc = "start"
    /\ c_text \in SeqsUpTo(CleanAlphabet, MaxTextLen)
    /\ c_once = <<>>
    /\ c_twice = <<>>

\* content = _clean_generated_code(content)
CleanFirst ==
    /\ c_pc = "start"
    /\ c_once' = CleanGeneratedCode(c_text)
    /\ c_pc' = "once"
    /\ UNCHANGED <<c_text, c_twice, runVars, pairVars, inj, waitVars,
                   portVars, scafVars>>

\* the cleaner applied to its own result
CleanSecond ==
    /\ c_pc = "once"
    /\ c_twice' = CleanGeneratedCode(c_once)
    /\ c_pc' = "twice"
    /\ UNCHANGED <<c_text, c_once, runVars, pairVars, inj, waitVars,
                   portVars, scafVars>>

NextClean == CleanFirst \/ CleanSecond

SpecClean == InitClean /\ [][NextClean]_vars

(***************************************************************************)
(* Step 5 of a parallel run on its own, for plans with more leaf files     *)
(* than the pool has workers.  The generation calls are injected: each     *)
(* succeeds at its first attempt.                                          *)
(***************************************************************************)
\* leaf files of the larger plan: one more than the pool has workers
PoolTasks == PoolCap + 1

PoolPath(i) == "src/F" \o ToString(i) \o ".jsx"

\* the plan: src/App.jsx and n leaf files, each described
PoolFiles(n) == <<RootPath>> \o [i \in 1..n |-> PoolPath(i)]

PoolAnswer == [kind |-> "text", text |-> <<"B", "\n">>]

\* the injected result of the first call for each leaf file
PoolInjection(n) ==
    [k \in {<<"leaf", PoolPath(i), 1>> : i \in 1..n} |-> PoolAnswer]

\* the state of the run at line 395, after steps 1 to 4
InitPool ==
    /\ \E n \in {2, PoolTasks} :
         /\ files = PoolFiles(n)
         /\ descriptions = Range(PoolFiles(n))
         /\ tree = WriteFile(SetupFolderStructure(StarterTree,
                                                  Range(PoolFiles(n))),
                             RootPath, CleanGeneratedCode(PoolAnswer.text))
         /\ inj = PoolInjection(n)
    /\ use_parallel = TRUE
    /\ pc = "filter"
    /\ abort_at = "none"
    /\ port = PORT_PARALLEL
    /\ port_fallback = FALSE
    /\ resp_delimited = TRUE
    /\ resp_expected = TRUE
    /\ root_state = "written"
    /\ leaf_phase_entered = FALSE
    /\ files_to_generate = <<>>
    /\ max_workers = 0
    /\ st = NoTasks
    /\ attempts = NoTasks
    /\ fails = NoTasks
    /\ wrote = NoTasks
    /\ next_file = 1
    /\ collected = NoTasks
    /\ log = {}
    /\ io = {"copy", "scaffold", "gen_write"}
    /\ gen_writes = {<<"root", RootPath>>}
    /\ launches = 0
    /\ ready = "unknown"
    /\ opened = FALSE
    /\ paired = TRUE
    /\ seq_tree = NoTree
    /\ seq_pc = "none"
    /\ WaitIdle
    /\ ToolIdle

NextPool ==
    \/ BeginLeafPhase
    \/ Submit
    \/ \E i \in DOMAIN st : WorkerStart(i)
    \/ \E i \in DOMAIN st : Attempt(i)
    \/ \E i \in DOMAIN st : Collect(i)
    \/ PoolExit

SpecPool == InitPool /\ [][NextPool]_vars

(***************************************************************************)
(* Properties.                                                             *)
(***************************************************************************)
Started(i) == st[i] \in {"running", "succeeded", "failed"} \/ attempts[i] > 0

AfterLeaves == {"config", "launch", "wait", "done"}

LeafStep ==
    \/ SeqStart
    \/ SeqReturn
    \/ SeqExit
    \/ Submit
    \/ \E i \in DOMAIN st : WorkerStart(i)
    \/ \E i \in DOMAIN st : Attempt(i)
    \/ \E i \in DOMAIN st : Collect(i)
    \/ PoolExit

\* C1: in both modes the call of generate_app_code has ended before any leaf
\* task starts a generation call: while the root call is pending or running
\* no leaf task has started, and a started leaf task implies a finished root.
C1_RootBeforeLeaves ==
    /\ root_state \in {"notrun", "calling"} => \A i \in DOMAIN st : ~Started(i)
    /\ (\E i \in DOMAIN st : Started(i)) => root_state \in {"written", "failed"}

C1_Witness ==
    /\ use_parallel
    /\ root_state = "written"
    /\ \E i \in DOMAIN st : st[i] = "running" /\ attempts[i] > 0

\* C2: a leaf task makes at most max_retries attempts; it is recorded as
\* succeeded after exactly (failures + 1) attempts with fewer than max_retries
\* failures; it is recorded as failed after exactly max_retries attempts, all
\* failed, and the failure is printed for it; a task not yet finished has only
\* failed attempts behind it (no attempt follows a success).
C2_Retry ==
    \A i \in DOMAIN st :
        /\ attempts[i] <= max_retries
        /\ st[i] = "succeeded" =>
              fails[i] < max_retries /\ attempts[i] = fails[i] + 1
        /\ st[i] = "failed" =>
              /\ fails[i] = max_retries
              /\ attempts[i] = max_retries
              /\ [msg |-> "failed_after_retries", task |-> i] \in log
        /\ st[i] \in {"new", "queued", "running"} => attempts[i] = fails[i]

C2_Witness ==
    \E i, j \in DOMAIN st :
        /\ st[i] = "succeeded" /\ fails[i] = max_retries - 1
        /\ st[j] = "failed"

\* C3: once a leaf task has exhausted its retries, the run is not aborted in
\* the leaf phase (only a failed launch can still abort it), the leaf phase
\* can always take a further step, and the server stage is entered only with
\* every dispatched leaf attempted and finished, in both modes.
C3_NoCascade ==
    (\E i \in DOMAIN st : st[i] = "failed") =>
        /\ pc = "raised" => abort_at = "launch"
        /\ pc = "leaves" => ENABLED LeafStep
        /\ pc \in AfterLeaves \cup {"raised"} =>
              \A j \in DOMAIN st : Finished(j) /\ attempts[j] >= 1

C3_Witness ==
    /\ pc = "launch"
    /\ Len(files_to_generate) = 2
    /\ st[1] = "failed"
    /\ st[2] = "succeeded"

\* number of non-excluded entries of the plan's file list before position p
NonExcludedBefore(p) ==
    Cardinality({q \in 1..(p - 1) : files[q] \notin IGNORED_FILES})

\* C5: in sequential mode task i is the task of the i-th non-excluded entry of
\* the plan's file list, and the tasks run one at a time in that order: a
\* task has left the state new only when every earlier task is finished, and
\* the server stage is entered only when every task was attempted, whether or
\* not an earlier one failed.
C5_SequentialOrder ==
    ~use_parallel =>
        /\ \A i \in DOMAIN st :
              \E p \in DOMAIN files :
                  /\ files[p] = files_to_generate[i]
                  /\ files[p] \notin IGNORED_FILES
                  /\ NonExcludedBefore(p) = i - 1
        /\ \A i, j \in DOMAIN st : i < j /\ st[j] # "new" => Finished(i)
        /\ Cardinality(Running) <= 1
        /\ pc \in AfterLeaves =>
              \A i \in DOMAIN st : Finished(i) /\ attempts[i] >= 1

C5_Witness ==
    /\ ~use_parallel
    /\ Len(files_to_generate) = 2
    /\ st[1] = "failed"
    /\ st[2] = "running"
    /\ attempts[2] > 0

\* C6 as stated: no generation task, root or leaf, writes to a path of
\* IGNORED_FILES.
C6_NoGenerationWritesExcluded ==
    \A w \in gen_writes : w[2] \notin IGNORED_FILES

\* C6 as amended: no leaf task targets or writes a path of IGNORED_FILES; the
\* root task is outside the filter: whenever the leaf phase is entered,
\* src/App.jsx, a member of IGNORED_FILES, has been regenerated.
C6_NoLeafWritesExcluded ==
    /\ \A w \in gen_writes : w[1] = "leaf" => w[2] \notin IGNORED_FILES
    /\ \A i \in DOMAIN st : files_to_generate[i] \notin IGNORED_FILES
    /\ leaf_phase_entered => <<"root", RootPath>> \in gen_writes

C6_Witness ==
    /\ pc = "done"
    /\ RootPath \in Range(files)
    /\ \E w \in gen_writes : w[1] = "leaf"

\* C7 as stated: a run whose root call failed still dispatches the leaves.
C7_LeavesAfterRootFailure ==
    pc \in Terminal /\ root_state = "failed" => leaf_phase_entered

\* C8 as stated: a structure response without both delimiters, or whose text
\* is not the object with the keys files and descriptions, is followed by no
\* file I/O and no launch.
C8_AbortBeforeIO ==
    ~resp_delimited \/ ~resp_expected => io = {} /\ launches = 0

\* C9: wait_for_server makes at most max_attempts probes; while it runs no
\* probe has had status < 400; it returns True at the first such probe; it
\* returns False exactly when max_attempts probes were made and none had
\* status < 400.
C9_WaitResult ==
    /\ w_probes <= w_max
    /\ w_pc = "loop" => w_ok_at = 0
    /\ w_result = "True" => w_ok_at > 0 /\ w_ok_at = w_probes
    /\ w_result = "False" => w_ok_at = 0 /\ w_probes = w_max
    /\ w_pc = "done" /\ w_ok_at = 0 => w_result = "False"

\* status >= 400 on probes 1..29 and status 200 on probe 30
C9_Witness ==
    /\ w_max = DefaultWaitAttempts
    /\ w_result = "True"
    /\ w_probes = DefaultWaitAttempts
    /\ w_sleeps = 0

\* C10 as stated: the delay elapses between any two consecutive probes, and
\* False is returned only after max_attempts delays.
C10_FixedInterval ==
    /\ w_probes > 0 => w_sleeps >= w_probes - 1
    /\ w_result = "False" => w_sleeps = w_max

BothDone == paired /\ use_parallel /\ pc = "done" /\ seq_pc = "done"

\* C4 as stated: a sequential and a parallel run with the same injected
\* results end with the same contents for every file.
C4_SameFiles == BothDone => tree.files = seq_tree.files

\* C4 as amended: they end with the same contents for every file other than
\* vite.config.js, which holds the port.
C4_SameGeneratedFiles ==
    BothDone =>
        /\ DOMAIN tree.files = DOMAIN seq_tree.files
        /\ \A p \in DOMAIN tree.files \ {ConfigPath} :
              tree.files[p] = seq_tree.files[p]

C4_Witness ==
    /\ BothDone
    /\ Len(files_to_generate) = 2
    /\ st[1] = "failed"
    /\ st[2] = "succeeded"
    /\ tree.files[ConfigPath] # seq_tree.files[ConfigPath]

\* the ports of the range [start, start + max_attempts - 1] not in use
FreeInRange == (f_start..(f_start + f_max - 1)) \ f_in_use

\* C11: find_available_port probes start, start+1, ... in this order, at most
\* max_attempts ports; it returns the smallest port of
\* [start, start+max_attempts-1] that is not in use, and raises RuntimeError
\* exactly when every port of that range is in use.  The result is the one
\* the run of generate_react_three_app computes with.
C11_FindPort ==
    /\ Len(f_probed) <= f_max
    /\ \A k \in DOMAIN f_probed : f_probed[k] = f_start + k - 1
    /\ f_pc = "loop" => \A k \in DOMAIN f_probed : f_probed[k] \in f_in_use
    /\ f_pc = "done" =>
          /\ (f_result = -1) <=> (FreeInRange = {})
          /\ f_result # -1 =>
                /\ f_result \in FreeInRange
                /\ \A q \in FreeInRange : f_result <= q
                /\ f_probed[Len(f_probed)] = f_result
          /\ f_result = FindAvailablePort(f_start, f_max, f_in_use)

\* 5173..5175 occupied, 5176 free: find_available_port(5173, 10) gave 5176
C11_Witness ==
    /\ f_start = PORT_SEQUENTIAL
    /\ f_max = DefaultPortAttempts
    /\ f_in_use = PORT_SEQUENTIAL..(PORT_SEQUENTIAL + 2)
    /\ f_pc = "done"
    /\ f_result = PORT_SEQUENTIAL + 3

Generating ==
    {"structure", "copy", "scaffold", "root", "root_call", "filter", "leaves"}

\* C12 as stated: the free port is selected after every generation task has
\* finished: while the plan, the root file or a leaf file is still to be
\* generated, no port has been selected.
C12_PortAfterGeneration == pc \in Generating => port = 0

\* C13: Popen is called at most once in a run; when it raises, the run ends
\* with that exception: wait_for_server is not called, nothing is opened and
\* no second launch follows; polling and opening happen only after a launch
\* that succeeded.
C13_LaunchOnce ==
    /\ launches <= 1
    /\ abort_at = "launch" =>
          /\ pc = "raised"
          /\ launches = 1
          /\ ready = "unknown"
          /\ ~opened
          /\ [msg |-> "manual_url", task |-> 0] \notin log
          /\ ~ENABLED Launch
          /\ ~ENABLED WaitAndOpen
    /\ ready # "unknown" \/ opened => launches = 1 /\ abort_at = "none"

C13_Witness ==
    /\ abort_at = "launch"
    /\ launches = 1
    /\ ConfigPath \in DOMAIN tree.files

AfterScaffold == {"root", "root_call", "filter", "leaves"} \cup AfterLeaves

\* C15 as stated: once the Scaffolder has run, every path of the plan's file
\* list exists as a file and its directory exists.
C15_PlanFilesScaffolded ==
    pc \in AfterScaffold =>
        \A i \in DOMAIN files :
            files[i] \in DOMAIN tree.files /\ CanOpenForWrite(tree, files[i])

\* C16 as stated: in parallel mode no two leaf tasks running at the same time
\* have the same target path.
C16_DistinctRunningPaths ==
    use_parallel =>
        \A i, j \in Running :
            i # j => files_to_generate[i] # files_to_generate[j]

\* C20: when find_available_port raised RuntimeError the run is not aborted
\* by it: the warning is printed, the port is the base port of the mode, the
\* structure step follows, and the configuration file written before the
\* launch holds the base port.
C20_PortFallback ==
    port_fallback =>
        /\ port = BasePort
        /\ [msg |-> "port_warning", task |-> 0] \in log
        /\ pc # "find_port"
        /\ abort_at # "find_port"
        /\ pc = "structure" => ENABLED GenerateStructure
        /\ "config" \in io => tree.files[ConfigPath] = ConfigText(BasePort)

C20_Witness ==
    /\ port_fallback
    /\ use_parallel
    /\ pc = "wait"
    /\ launches = 1
    /\ \E i \in DOMAIN st : st[i] = "succeeded"

\* C14: setup_folder_structure leaves every existing file with its content
\* and every existing directory in place; what it adds are empty files at
\* paths of job_files; a second call on the resulting tree changes nothing.
C14_ScaffoldPreserves ==
    /\ s_pc \in {"once", "twice"} =>
          /\ \A p \in DOMAIN s_before.files :
                p \in DOMAIN s_once.files
                /\ s_once.files[p] = s_before.files[p]
          /\ \A p \in DOMAIN s_once.files \ DOMAIN s_before.files :
                p \in s_job /\ s_once.files[p] = <<>>
          /\ s_before.dirs \subseteq s_once.dirs
    /\ s_pc = "twice" => s_twice = s_once

\* a job with a path that existed with content and a path that did not
C14_Witness ==
    /\ s_pc = "twice"
    /\ \E p \in s_job : p \in DOMAIN s_before.files /\ s_before.files[p] # <<>>
    /\ \E p \in s_job : p \notin DOMAIN s_before.files
    /\ s_once # s_before

ContainsFence(t) == Find(t, Fence) # -1

\* C18 as stated: for a text that begins with the fence marker and ends with
\* the fence marker, the cleaned text holds no fence marker and cleaning it
\* again leaves it as it is.
C18_CleanRemovesFences ==
    c_pc = "twice" /\ StartsWith(c_text, Fence) /\ EndsWith(c_text, Fence) =>
        ~ContainsFence(c_once) /\ c_twice = c_once

\* C19 as stated, read with the trimming of surrounding whitespace allowed:
\* for a text that begins with the fence marker and holds no line break, the
\* cleaner removes no character other than surrounding whitespace.
C19_NoBreakUnmodified ==
    c_pc \in {"once", "twice"} /\ StartsWith(c_text, Fence)
        /\ Find(c_text, <<"\n">>) = -1 =>
        c_once = Strip(c_text)

\* steps a leaf task still has to take, at most: to be submitted, to be
\* started, its remaining attempts, and the collection of its result
TaskWork(i) ==
    CASE st[i] = "new" -> max_retries + 3
      [] st[i] = "queued" -> max_retries + 2
      [] st[i] = "running" -> max_retries + 1 - attempts[i]
      [] OTHER -> 1 - collected[i]

\* the steps of the pool and of the main thread; a running task is a step
\* of its worker thread
PoolStep ==
    \/ Submit
    \/ \E i \in DOMAIN st : WorkerStart(i)
    \/ \E i \in DOMAIN st : Collect(i)
    \/ PoolExit

C17_PoolSafety ==
    use_parallel =>
        /\ Cardinality(Running) <= Min(PoolCap, Len(files_to_generate))
        /\ \A i \in DOMAIN st :
              /\ collected[i] <= 1
              /\ collected[i] = 1 => Finished(i) /\ attempts[i] >= 1
        /\ pc = "leaves" => Running # {} \/ ENABLED PoolStep
        /\ pc = "config" =>
              \A i \in DOMAIN st : Finished(i) /\ collected[i] = 1

\* C17: in parallel mode at most min(10, number of leaf tasks) leaf tasks
\* execute at the same time; the result of a task is collected at most once
\* and only once the task has run; every submitted task is executed and
\* collected, in whatever order the tasks finish: while the pool is open it
\* has a step to take, each of its steps reduces the steps some task still
\* has to take and raises those of none, and the pool is left only with every
\* task executed and collected exactly once.
C17_BoundedPool ==
    /\ []C17_PoolSafety
    /\ [][pc = "leaves" =>
             /\ \A i \in DOMAIN st : TaskWork(i)' <= TaskWork(i)
             /\ pc' # "leaves" \/ \E i \in DOMAIN st : TaskWork(i)' < TaskWork(i)
         ]_vars

\* the pool is full and a submitted task waits for a worker
C17_Witness ==
    /\ Len(files_to_generate) > PoolCap
    /\ Cardinality(Running) = PoolCap
    /\ \E i \in DOMAIN st : st[i] = "queued"
    /\ \E i \in Running : attempts[i] = 0

\* C21: webbrowser.open is called exactly when wait_for_server returned True;
\* when it returned False the run still reaches its end without an
\* exception and has printed the URL for manual access; the wait happens
\* only after the one launch; and the run never kills the server process.
C21_OpenIffReady ==
    /\ opened <=> ready = "yes"
    /\ ready = "no" =>
          /\ pc = "done"
          /\ abort_at = "none"
          /\ [msg |-> "manual_url", task |-> 0] \in log
    /\ ready = "yes" => [msg |-> "manual_url", task |-> 0] \notin log
    /\ ready # "unknown" => launches = 1 /\ "launch" \in io
    /\ pc = "done" => ready # "unknown"
    /\ "kill" \notin io

\* the readiness wait timed out
C21_Witness ==
    /\ pc = "done"
    /\ ready = "no"
    /\ ~opened
    /\ launches = 1

\* the output directory as setup_folder_structure left it
ScaffoldedTree == SetupFolderStructure(CopyStarter(NoTree), descriptions)

\* the leaf tasks of a path that have succeeded
SucceededFor(p) ==
    {i \in DOMAIN st : files_to_generate[i] = p /\ st[i] = "succeeded"}

\* C22: a call of generate_leaf_code that raises leaves the target file as it
\* was: at every moment a leaf file no call has succeeded for is as the
\* scaffolding left it (absent, or with that content), however many calls
\* for it have failed; a leaf file a call has succeeded for holds the text
\* that call wrote, which is the cleaned text of a completion and was
\* written by the attempt that followed the failed ones.
C22_FailedAttemptKeepsFile ==
    /\ \A i \in DOMAIN st :
          LET p == files_to_generate[i]
          IN IF SucceededFor(p) = {}
             THEN /\ p \in DOMAIN tree.files <=> p \in DOMAIN ScaffoldedTree.files
                  /\ p \in DOMAIN tree.files =>
                        tree.files[p] = ScaffoldedTree.files[p]
             ELSE /\ p \in DOMAIN tree.files
                  /\ \E j \in SucceededFor(p) : tree.files[p] = wrote[j]
    /\ \A i \in DOMAIN st :
          st[i] = "succeeded" =>
              /\ wrote[i] \in {CleanGeneratedCode(t) : t \in RawTexts}
              /\ attempts[i] = fails[i] + 1
              /\ <<"leaf", files_to_generate[i]>> \in gen_writes
    /\ \A w \in gen_writes :
          w[1] = "leaf" => SucceededFor(w[2]) # {}

\* a run that ended with a scaffolded leaf whose three calls failed and a
\* leaf that succeeded after a failed call
C22_Witness ==
    /\ pc = "done"
    /\ \E i, j \in DOMAIN st :
          /\ st[i] = "failed"
          /\ fails[i] = max_retries
          /\ files_to_generate[i] \in DOMAIN tree.files
          /\ tree.files[files_to_generate[i]] = <<>>
          /\ st[j] = "succeeded"
          /\ fails[j] >= 1
          /\ tree.files[files_to_generate[j]] = wrote[j]

ServerStageBegun == pc \in AfterLeaves \/ "config" \in io \/ launches > 0

\* C23: in both modes, once the configuration file is being written or the
\* server has been launched, the leaf phase is over: every entry of the
\* dispatch list was handed out, no leaf task is waiting or running, each has
\* succeeded or used up its retries, and each result was handled.
C23_LaunchAfterLeaves ==
    ServerStageBegun =>
        /\ leaf_phase_entered
        /\ DOMAIN st = 1..Len(files_to_generate)
        /\ next_file > Len(files_to_generate)
        /\ Running = {}
        /\ \A i \in DOMAIN st :
              /\ st[i] \notin {"new", "queued", "running"}
              /\ st[i] = "failed" => attempts[i] = max_retries
              /\ collected[i] = 1

\* a parallel run that launched the server after one leaf failed and one
\* succeeded
C23_Witness ==
    /\ use_parallel
    /\ launches = 1
    /\ "config" \in io
    /\ \E i, j \in DOMAIN st : st[i] = "failed" /\ st[j] = "succeeded"

\* C24 as stated: whatever the plan, a run that has entered the leaf phase
\* is not ended by an error of that phase, also when no leaf is dispatched.
C24_LeafPhaseCompletes ==
    leaf_phase_entered => abort_at \notin {"pool", "leaves"}

=============================================================================
